---- MODULE Spec2Model ----
(***************************************************************************)
(* Model of the Go host of hako (QuickJS in WebAssembly): one Runtime, its *)
(* Realms, the Values handed to the host, the CallbackManager's maps and   *)
(* the engine state reached through the Registry's entry points.           *)
(*                                                                         *)
(* Every public method is one action.  An action computes the sequence of  *)
(* calls the method makes (engine entry points and CallbackManager         *)
(* methods) for the results the engine returns, records it in last.calls   *)
(* and applies it to the engine state.  The host functions the engine      *)
(* calls back are actions on the linear memory.  SpecConcurrent runs the   *)
(* methods of Runtime and Realm step by step on several goroutines, and    *)
(* SpecManager does the same for the methods of the CallbackManager.       *)
(***************************************************************************)
EXTENDS Integers, Sequences, FiniteSets, TLC

\* ---------------------------------------------------------------- bounds
MaxRealms == 2        \* Realm objects created over a run
MaxHandle == 2        \* context handles the engine can hand out: 1..MaxHandle
MaxValues == 2        \* Value structs the host holds
MaxVHandle == 2       \* value handles the engine can hand out: 1..MaxVHandle
MaxMem == 3           \* memory offsets the engine allocator can hand out
MaxFree == 2          \* engine releases issued through one Value
MaxThreads == 2       \* goroutines calling into one Runtime
MemSize == 14         \* bytes of linear memory
MaxTail == 3          \* bytes at the end of the memory drawn freely

Handles == 1..MaxHandle
VHandles == 1..MaxVHandle
Offsets == 1..MaxMem
Threads == 1..MaxThreads

VARIABLES
    rt,                \* Runtime: Pointer, disposed, realms, realmsNil
    realm,             \* sequence of Realm structs: Pointer, disposed
    values,            \* sequence of Value structs: realm, ptr, borrowed
    contexts,          \* CallbackManager.contexts: set of <<ContextPtr, realm>>
    runtimes,          \* CallbackManager.runtimes: set of RuntimePtr
    engCtxs,           \* engine: live context handles
    engRtLive,         \* engine: the runtime handle is live
    wazeroClosed,      \* engine instance closed
    heap,              \* engine: allocated memory offsets
    refcnt,            \* engine: reference count of each value handle
    createdWith,       \* per Realm: the handle CreateRealm got for it
    freeContextCount,  \* per Realm: FreeContext calls issued by its dispose
    released,          \* per Value: engine releases issued by its Free
    mem,               \* the instance's linear memory: a sequence of bytes
    thr,               \* per goroutine: the call it is in and where it stands
    mu,                \* Runtime.mu: the goroutine holding it, 0 when free
    cmMu,              \* CallbackManager.mu: the goroutine holding it, 0 when free
    cmLog,             \* CallbackManager calls in the order they took cmMu
    last               \* the last method call: op, target, err, ret, calls

vars == <<rt, realm, values, contexts, runtimes, engCtxs, engRtLive,
          wazeroClosed, heap, refcnt, createdWith, freeContextCount,
          released, mem, thr, mu, cmMu, cmLog, last>>

\* ------------------------------------------------------- Go maps as sets
\* A map is a set of <<key, value>> pairs with at most one pair per key.
Keys(m) == {e[1] : e \in m}
Put(m, k, v) == {e \in m : e[1] # k} \cup {<<k, v>>}
Delete(m, k) == {e \in m : e[1] # k}
Get(m, k) == (CHOOSE e \in m : e[1] = k)[2]

\* --------------------------------------------------------- call records
\* A call: the function, the context or runtime handle it is made on (0 when
\* it takes none), its pointer argument and the handle or offset it returns.
Call(fn, on, arg, ret) == [fn |-> fn, on |-> on, arg |-> arg, ret |-> ret]

RECURSIVE Concat(_)
Concat(ss) == IF ss = <<>> THEN <<>> ELSE Head(ss) \o Concat(Tail(ss))

CountCalls(calls, fn, arg) ==
    Cardinality({i \in DOMAIN calls : calls[i].fn = fn /\ calls[i].arg = arg})

\* The CallbackManager's methods; every other call is an engine entry point.
RouterFns == {"RegisterContext", "UnregisterContext",
              "RegisterRuntime", "UnregisterRuntime"}

EngineCallsOf(calls) == SelectSeq(calls, LAMBDA c : c.fn \notin RouterFns)

\* ------------------------------------------------ the engine (Registry)
\* The runtime handle New got from NewRuntime (non-null, runtime.go:162-166).
RtPtr == MaxHandle + 1

\* The engine's singleton constants returned by GetUndefined / GetNull.
UndefinedPtr == MaxVHandle + 1
NullPtr == MaxVHandle + 2

\* Entry points that return a new, caller-owned value handle.
ValueMakers == {"Eval", "GetLastError", "GetGlobalObject", "NewString",
                "NewFloat64", "NewObject", "NewArray", "DupValuePointer"}

\* Live context handles after the engine has served `calls`.
RECURSIVE CtxAfter(_, _)
CtxAfter(cs, calls) ==
    IF calls = <<>> THEN cs
    ELSE LET c == Head(calls)
             next == IF c.fn = "NewContext" /\ c.ret # 0 THEN cs \cup {c.ret}
                     ELSE IF c.fn = "FreeContext" THEN cs \ {c.on}
                     ELSE cs
         IN  CtxAfter(next, Tail(calls))

\* Allocated memory offsets after the engine has served `calls`.
RECURSIVE HeapAfter(_, _)
HeapAfter(h, calls) ==
    IF calls = <<>> THEN h
    ELSE LET c == Head(calls)
             next == IF c.fn \in {"Malloc", "ToCString"} /\ c.ret # 0
                         THEN h \cup {c.ret}
                     ELSE IF c.fn \in {"Free", "FreeCString"} THEN h \ {c.arg}
                     ELSE h
         IN  HeapAfter(next, Tail(calls))

\* Reference counts after the engine has served `calls`.  A value made on a
\* live context starts at one reference; a release takes one away.
RECURSIVE RefAfter(_, _)
RefAfter(rc, calls) ==
    IF calls = <<>> THEN rc
    ELSE LET c == Head(calls)
             next == IF c.fn \in ValueMakers /\ c.ret \in VHandles /\ c.on # 0
                         THEN [rc EXCEPT ![c.ret] = @ + 1]
                     ELSE IF c.fn = "FreeValuePointer" /\ c.arg \in VHandles
                              /\ rc[c.arg] > 0
                         THEN [rc EXCEPT ![c.arg] = @ - 1]
                     ELSE rc
         IN  RefAfter(next, Tail(calls))

\* What NewContext may return: null, or a handle that is not live.
NewContextResults == {0} \cup (Handles \ engCtxs)

\* What an entry point that makes a value may return on context `ctx` when
\* the handles in `taken` were handed out earlier in the same method: null,
\* or a handle with no reference.  On the null context the call is outside
\* the engine's contract and may return anything.
NewValueResults(ctx, taken) ==
    IF ctx = 0 THEN {0} \cup VHandles
    ELSE {0} \cup {h \in VHandles : refcnt[h] = 0 /\ h \notin taken}

\* What DupValuePointer may return for handle ptr: the same handle, now with
\* one more reference.  A handle without a reference left is outside the
\* engine's contract and the call may return anything.
DupResults(ptr) ==
    IF ptr \in VHandles /\ refcnt[ptr] = 0 THEN {0} \cup VHandles ELSE {ptr}

\* What the allocator may return: null, or an offset that is not allocated.
\* No method keeps an offset after it returns and offsets are only compared
\* for equality, so the lowest free offset stands for any of them.
MallocResults(taken) ==
    LET free == {p \in Offsets : p \notin heap /\ p \notin taken}
    IN  {0} \cup {p \in free : \A q \in free : p <= q}

\* ------------------------------------------------------------- structs
ZeroValue == [realm |-> 0, ptr |-> 0, borrowed |-> FALSE]

\* A linear memory of MemSize zero bytes; the byte at offset o is mem[o + 1].
ZeroMemory == [i \in 1..MemSize |-> 0]

\* Offsets are unsigned 32-bit integers in the program: arithmetic on them
\* wraps around.  The model keeps the wrap-around with an address space that
\* is scaled down to a little more than twice the memory.
AddrSpace == 2 * MemSize + 4
Wrap(x) == x % AddrSpace

\* api.Memory.Read / Write: out of range when offset + length passes the end
\* of the memory; nothing is read or written then.
MemRead(m, offset, n) ==
    IF offset + n <= Len(m)
    THEN [data |-> SubSeq(m, offset + 1, offset + n), ok |-> TRUE]
    ELSE [data |-> <<>>, ok |-> FALSE]

MemWrite(m, offset, data) ==
    IF offset + Len(data) <= Len(m)
    THEN [mem |-> [i \in 1..Len(m) |->
                      IF i > offset /\ i <= offset + Len(data)
                      THEN data[i - offset] ELSE m[i]],
          ok |-> TRUE]
    ELSE [mem |-> m, ok |-> FALSE]

\* The four bytes of a 32-bit value, least significant first and most
\* significant first.
Le32(val) ==
    <<val % 256, (val \div 256) % 256, (val \div 65536) % 256,
      (val \div 16777216) % 256>>
Be32(val) ==
    <<(val \div 16777216) % 256, (val \div 65536) % 256, (val \div 256) % 256,
      val % 256>>

\* Memory.WriteBytes
WriteBytes(m, offset, data) == MemWrite(m, Wrap(offset), data)

\* Memory.WriteUint32 storing the most significant byte first.
WriteUint32BigEndian(m, offset, val) == MemWrite(m, Wrap(offset), Be32(val))

\* Memory.WriteUint32: api.Memory.WriteUint32Le
WriteUint32(m, offset, val) == MemWrite(m, Wrap(offset), Le32(val))

\* Memory.ReadString: the string read and the ok result.
ReadString(m, offset) ==
    LET got == MemRead(m, Wrap(offset), Wrap(Len(m) - Wrap(offset)))
        zeros == {i \in DOMAIN got.data : got.data[i] = 0}
        first == CHOOSE i \in zeros : \A j \in zeros : i <= j
    IN  IF ~got.ok THEN [s |-> <<>>, ok |-> FALSE]
        ELSE IF zeros # {} THEN [s |-> SubSeq(got.data, 1, first - 1), ok |-> TRUE]
        ELSE [s |-> got.data, ok |-> TRUE]

\* MemoryManager.ReadNullTerminatedString: the string returned.
ReadNullTerminatedString(m, ptr) ==
    IF ptr = 0 THEN <<>> ELSE ReadString(m, ptr).s

\* A goroutine that is in no call.
IdleThread ==
    [pc |-> "idle", op |-> "none", err |-> "none", r |-> 0, ptr |-> 0,
     todo |-> {}, fault |-> "none", freedRt |-> FALSE]

Record(op, target, err, ret, calls) ==
    [op |-> op, target |-> target, err |-> err, ret |-> ret, calls |-> calls]

\* The engine state after the method's calls.
Engine(calls) ==
    /\ engCtxs' = CtxAfter(engCtxs, calls)
    /\ heap' = HeapAfter(heap, calls)
    /\ refcnt' = RefAfter(refcnt, calls)
    /\ engRtLive' = (engRtLive /\ \A i \in DOMAIN calls : calls[i].fn # "FreeRuntime")
    /\ wazeroClosed' = (wazeroClosed \/ \E i \in DOMAIN calls : calls[i].fn = "WazeroClose")

\* The state after New, with m the content of the instance's memory.
InitWith(m) ==
    /\ rt = [Pointer |-> RtPtr, disposed |-> FALSE, realms |-> {}, realmsNil |-> FALSE]
    /\ realm = <<>>
    /\ values = <<>>
    /\ contexts = {}
    /\ runtimes = {RtPtr}
    /\ engCtxs = {}
    /\ engRtLive = TRUE
    /\ wazeroClosed = FALSE
    /\ heap = {}
    /\ refcnt = [h \in VHandles |-> 0]
    /\ createdWith = <<>>
    /\ freeContextCount = <<>>
    /\ released = <<>>
    /\ mem = m
    /\ thr = [t \in Threads |-> IdleThread]
    /\ mu = 0
    /\ cmMu = 0
    /\ cmLog = <<>>
    /\ last = Record("New", 0, "nil", ZeroValue,
                     <<Call("NewRuntime", 0, 0, RtPtr), Call("RegisterRuntime", RtPtr, 0, 0)>>)

Init == InitWith(ZeroMemory)

\* ------------------------------------------------------------- Runtime
\* CallbackManager.RegisterContext / UnregisterContext / UnregisterRuntime
RegisterContextDropped(m, ptr, r) == m
RegisterContext(m, ptr, r) == Put(m, ptr, r)
UnregisterContext(m, ptr) == Delete(m, ptr)
UnregisterRuntime(m, ptr) == m \ {ptr}

\* Runtime.CreateRealm, for the handle ctxPtr that NewContext returns.
CreateRealm ==
    IF rt.disposed
    THEN /\ last' = Record("CreateRealm", 0, "disposed", ZeroValue, <<>>)
         /\ UNCHANGED <<rt, realm, values, contexts, runtimes, engCtxs, engRtLive,
                        wazeroClosed, heap, refcnt, createdWith, freeContextCount,
                        released, mem, thr, mu, cmMu, cmLog>>
    ELSE \E ctxPtr \in NewContextResults :
           IF ctxPtr = 0
           THEN /\ last' = Record("CreateRealm", 0, "null", ZeroValue,
                                  <<Call("NewContext", rt.Pointer, 0, 0)>>)
                /\ UNCHANGED <<rt, realm, values, contexts, runtimes, engCtxs,
                               engRtLive, wazeroClosed, heap, refcnt, createdWith,
                               freeContextCount, released, mem, thr, mu, cmMu, cmLog>>
           ELSE LET r == Len(realm) + 1
                    calls == <<Call("NewContext", rt.Pointer, 0, ctxPtr),
                               Call("RegisterContext", ctxPtr, r, 0)>>
                IN  /\ Len(realm) < MaxRealms
                    /\ realm' = Append(realm, [Pointer |-> ctxPtr, disposed |-> FALSE])
                    /\ rt' = [rt EXCEPT !.realms = Put(@, ctxPtr, r)]
                    /\ contexts' = RegisterContext(contexts, ctxPtr, r)
                    /\ createdWith' = Append(createdWith, ctxPtr)
                    /\ freeContextCount' = Append(freeContextCount, 0)
                    /\ last' = Record("CreateRealm", r, "nil", ZeroValue, calls)
                    /\ Engine(calls)
                    /\ UNCHANGED <<values, runtimes, released, mem, thr, mu, cmMu, cmLog>>

\* SetMemoryLimit, RunGC, IsMicrotaskPending, ExecuteMicrotasks: each forwards
\* to one entry point with rt.Pointer.
RuntimeForwards == {<<"SetMemoryLimit", "RuntimeSetMemoryLimit">>,
                    <<"RunGC", "RunGC">>,
                    <<"IsMicrotaskPending", "IsJobPending">>,
                    <<"ExecuteMicrotasks", "ExecutePendingJob">>}

RuntimeForwardCalls(fn) == <<Call(fn, rt.Pointer, 0, 0)>>

RuntimeForward ==
    \E f \in RuntimeForwards :
        /\ last' = Record(f[1], 0, "nil", ZeroValue, RuntimeForwardCalls(f[2]))
        /\ UNCHANGED <<rt, realm, values, contexts, runtimes, engCtxs, engRtLive,
                       wazeroClosed, heap, refcnt, createdWith, freeContextCount,
                       released, mem, thr, mu, cmMu, cmLog>>

\* Runtime.dropRealm: delete(rt.realms, realm.Pointer), with the Pointer the
\* Realm has when dropRealm runs.
dropRealm(m, rm) == Delete(m, rm.Pointer)

\* ---------------------------------------------------------------- Realm
\* Realm.dispose without its `r.Pointer = 0`.
disposeKeepsPointer(rm) ==
    IF rm.disposed THEN [realm |-> rm, calls |-> <<>>]
    ELSE [realm |-> [rm EXCEPT !.disposed = TRUE],
          calls |-> IF rm.Pointer # 0
                    THEN <<Call("FreeContext", rm.Pointer, 0, 0)>>
                    ELSE <<>>]

\* Realm.dispose: the struct afterwards and the calls made.
dispose(rm) ==
    IF rm.disposed THEN [realm |-> rm, calls |-> <<>>]
    ELSE [realm |-> [rm EXCEPT !.disposed = TRUE, !.Pointer = 0],
          calls |-> IF rm.Pointer # 0
                    THEN <<Call("FreeContext", rm.Pointer, 0, 0)>>
                    ELSE <<>>]

\* The orders in which `for _, realm := range rt.realms` may visit the map.
RangeOrders(m) ==
    LET n == Cardinality(m)
    IN  {o \in [1..n -> m] : \A i, j \in 1..n : i # j => o[i] # o[j]}

\* Realm.Close on a Realm that is not yet disposed, with the dispose ahead of
\* the UnregisterContext: the handle is read from the Realm after dispose
\* has zeroed it.
CloseLiveDisposeFirst(r) ==
    LET d == dispose(realm[r])
    IN  [contexts |-> UnregisterContext(contexts, d.realm.Pointer),
         realm |-> d.realm,
         realms |-> dropRealm(rt.realms, d.realm),
         freed |-> Len(d.calls),
         calls |-> d.calls \o <<Call("UnregisterContext", d.realm.Pointer, 0, 0)>>]

\* What Realm.Close does on a Realm that is not yet disposed: the contexts
\* map, the Realm and the tracking map afterwards, and the calls made.
CloseLive(r) ==
    LET d == dispose(realm[r])
    IN  [contexts |-> UnregisterContext(contexts, realm[r].Pointer),
         realm |-> d.realm,
         realms |-> dropRealm(rt.realms, d.realm),
         freed |-> Len(d.calls),
         calls |-> <<Call("UnregisterContext", realm[r].Pointer, 0, 0)>> \o d.calls]

\* Realm.Close without its `if r.disposed` guard.
CloseRealmUnguarded(r) == CloseLive(r)

\* Realm.Close
CloseRealm(r) ==
    IF realm[r].disposed
    THEN [contexts |-> contexts, realm |-> realm[r], realms |-> rt.realms,
          freed |-> 0, calls |-> <<>>]
    ELSE CloseLive(r)

RealmClose(r) ==
    /\ r \in DOMAIN realm
    /\ LET out == CloseRealm(r)
       IN  /\ contexts' = out.contexts
           /\ realm' = [realm EXCEPT ![r] = out.realm]
           /\ rt' = [rt EXCEPT !.realms = out.realms]
           /\ freeContextCount' = [freeContextCount EXCEPT ![r] = @ + out.freed]
           /\ last' = Record("RealmClose", r, "nil", ZeroValue, out.calls)
           /\ Engine(out.calls)
           /\ UNCHANGED <<values, runtimes, createdWith, released, mem, thr, mu, cmMu, cmLog>>

\* The teardown of Runtime.Close with the runtime handle unregistered and
\* freed ahead of the cascade over rt.realms.
TeardownRuntimeFirst(order) ==
    LET visited == {order[i][2] : i \in DOMAIN order}
        cascade == Concat([i \in DOMAIN order |-> dispose(realm[order[i][2]]).calls])
        free == IF rt.Pointer # 0
                THEN <<Call("UnregisterRuntime", rt.Pointer, 0, 0),
                       Call("FreeRuntime", rt.Pointer, 0, 0)>>
                ELSE <<>>
    IN  [rt |-> [Pointer |-> 0, disposed |-> TRUE, realms |-> {}, realmsNil |-> TRUE],
         realm |-> [i \in DOMAIN realm |->
                       IF i \in visited THEN dispose(realm[i]).realm ELSE realm[i]],
         freed |-> [i \in DOMAIN realm |->
                       IF i \in visited THEN Len(dispose(realm[i]).calls) ELSE 0],
         runtimes |-> IF rt.Pointer # 0 THEN UnregisterRuntime(runtimes, rt.Pointer)
                      ELSE runtimes,
         calls |-> free \o cascade \o <<Call("WazeroClose", 0, 0, 0)>>]

\* The teardown Runtime.Close runs when the Runtime is not yet disposed, for
\* the order in which the range loop visits rt.realms: the Runtime, the Realms
\* and the runtimes map afterwards, and the calls made.
Teardown(order) ==
    LET visited == {order[i][2] : i \in DOMAIN order}
        cascade == Concat([i \in DOMAIN order |-> dispose(realm[order[i][2]]).calls])
        free == IF rt.Pointer # 0
                THEN <<Call("UnregisterRuntime", rt.Pointer, 0, 0),
                       Call("FreeRuntime", rt.Pointer, 0, 0)>>
                ELSE <<>>
    IN  [rt |-> [Pointer |-> 0, disposed |-> TRUE, realms |-> {}, realmsNil |-> TRUE],
         realm |-> [i \in DOMAIN realm |->
                       IF i \in visited THEN dispose(realm[i]).realm ELSE realm[i]],
         freed |-> [i \in DOMAIN realm |->
                       IF i \in visited THEN Len(dispose(realm[i]).calls) ELSE 0],
         runtimes |-> IF rt.Pointer # 0 THEN UnregisterRuntime(runtimes, rt.Pointer)
                      ELSE runtimes,
         calls |-> cascade \o free \o <<Call("WazeroClose", 0, 0, 0)>>]

\* Runtime.Close without its `if rt.disposed` guard.
CloseUnguarded(order) == Teardown(order)

\* Runtime.Close, for the order in which the range loop visits rt.realms.
Close(order) ==
    IF rt.disposed
    THEN [rt |-> rt, realm |-> realm, freed |-> [i \in DOMAIN realm |-> 0],
          runtimes |-> runtimes, calls |-> <<>>]
    ELSE Teardown(order)

RuntimeClose ==
    \E order \in RangeOrders(rt.realms) :
        LET out == Close(order)
        IN  /\ rt' = out.rt
            /\ realm' = out.realm
            /\ runtimes' = out.runtimes
            /\ freeContextCount' =
                   [i \in DOMAIN realm |-> freeContextCount[i] + out.freed[i]]
            /\ last' = Record("RuntimeClose", 0, "nil", ZeroValue, out.calls)
            /\ Engine(out.calls)
            /\ UNCHANGED <<values, contexts, createdWith, released, mem, thr, mu, cmMu, cmLog>>

\* ----------------------------------------------------- MemoryManager
\* FreeMemory, FreeCString, FreeValuePointer: the entry point is called unless
\* the pointer is null.
FreeMemory(ctx, ptr) == IF ptr # 0 THEN <<Call("Free", ctx, ptr, 0)>> ELSE <<>>
FreeCString(ctx, ptr) == IF ptr # 0 THEN <<Call("FreeCString", ctx, ptr, 0)>> ELSE <<>>
FreeValuePointer(ctx, ptr) ==
    IF ptr # 0 THEN <<Call("FreeValuePointer", ctx, ptr, 0)>> ELSE <<>>

\* AllocateString, for the offset ptr that Malloc returns.
AllocateString(ctx, ptr) == <<Call("Malloc", ctx, 0, ptr)>>

\* ---------------------------------------------------------------- Value
\* Value.Free without its `v.borrowed` test.
FreeIgnoresBorrowed(v) ==
    IF v.realm = 0 \/ v.ptr = 0 THEN <<>>
    ELSE <<Call("FreeValuePointer", realm[v.realm].Pointer, v.ptr, 0)>>

\* Value.Free: the calls made.  The receiver is a copy, so v is unchanged.
Free(v) ==
    IF v.realm = 0 \/ v.ptr = 0 \/ v.borrowed THEN <<>>
    ELSE FreeValuePointer(realm[v.realm].Pointer, v.ptr)

\* Value.Dup that copies the struct and does not call the engine.
DupWithoutEngine(v, ptr) ==
    IF v.realm = 0 THEN [ret |-> ZeroValue, err |-> "nil", calls |-> <<>>]
    ELSE [ret |-> [realm |-> v.realm, ptr |-> v.ptr, borrowed |-> FALSE],
          err |-> "nil", calls |-> <<>>]

\* Value.Dup, for the handle ptr that DupValuePointer returns.
Dup(v, ptr) ==
    IF v.realm = 0 THEN [ret |-> ZeroValue, err |-> "nil", calls |-> <<>>]
    ELSE [ret |-> [realm |-> v.realm, ptr |-> ptr, borrowed |-> FALSE],
          err |-> "nil",
          calls |-> <<Call("DupValuePointer", realm[v.realm].Pointer, v.ptr, ptr)>>]

\* Value.AsNumber: the calls made.
AsNumber(v) ==
    IF v.realm = 0 THEN <<>>
    ELSE <<Call("GetFloat64", realm[v.realm].Pointer, v.ptr, 0)>>

\* Value.String, for the offset strPtr that ToCString returns: the calls made.
ValueString(v, strPtr) ==
    IF v.realm = 0 THEN <<>>
    ELSE <<Call("ToCString", realm[v.realm].Pointer, v.ptr, strPtr)>>
         \o FreeCString(realm[v.realm].Pointer, strPtr)

\* ------------------------------------------------ Realm: making Values
Outcome(ret, err, calls) == [ret |-> ret, err |-> err, calls |-> calls]

\* Realm.Undefined / Realm.Null
Undefined(r) ==
    Outcome([realm |-> r, ptr |-> UndefinedPtr, borrowed |-> TRUE], "nil",
            <<Call("GetUndefined", 0, 0, UndefinedPtr)>>)
Null(r) ==
    Outcome([realm |-> r, ptr |-> NullPtr, borrowed |-> TRUE], "nil",
            <<Call("GetNull", 0, 0, NullPtr)>>)

\* Realm.GetGlobalObject / NewNumber / NewObject / NewArray, for the handle ptr
\* that the entry point fn returns.
MakeValue(r, fn, ptr) ==
    Outcome([realm |-> r, ptr |-> ptr, borrowed |-> FALSE], "nil",
            <<Call(fn, realm[r].Pointer, 0, ptr)>>)

\* Realm.NewString, for the offset strPtr and the handle ptr the engine returns.
NewStringOutcome(r, strPtr, ptr) ==
    Outcome([realm |-> r, ptr |-> ptr, borrowed |-> FALSE], "nil",
            AllocateString(realm[r].Pointer, strPtr)
            \o <<Call("NewString", realm[r].Pointer, strPtr, ptr)>>
            \o FreeMemory(realm[r].Pointer, strPtr))

\* Realm.EvalCodeWithOptions with the two frees made at the end of the method
\* instead of deferred: the return on a failed filename allocation skips them.
EvalCodeWithOptionsNoDefer(r, code, codePtr, filenamePtr, resultPtr, errPtr, strPtr) ==
    LET ctx == realm[r].Pointer
        errVal == [realm |-> r, ptr |-> errPtr, borrowed |-> FALSE]
        start == <<Call("Malloc", ctx, 0, codePtr), Call("Malloc", ctx, 0, filenamePtr)>>
        eval == <<Call("Eval", ctx, <<codePtr, filenamePtr>>, resultPtr),
                  Call("GetLastError", ctx, resultPtr, errPtr)>>
        atEnd == <<Call("Free", ctx, filenamePtr, 0), Call("Free", ctx, codePtr, 0)>>
        release == (IF resultPtr # 0
                    THEN <<Call("FreeValuePointer", ctx, resultPtr, 0)>> ELSE <<>>)
                   \o <<Call("ToCString", ctx, errPtr, strPtr)>>
                   \o (IF strPtr # 0
                       THEN <<Call("FreeCString", ctx, strPtr, 0)>> ELSE <<>>)
                   \o <<Call("FreeValuePointer", ctx, errPtr, 0)>>
    IN  IF realm[r].disposed
            THEN [ret |-> ZeroValue, err |-> "disposed", calls |-> <<>>]
        ELSE IF Len(code) = 0
            THEN [ret |-> [realm |-> r, ptr |-> UndefinedPtr, borrowed |-> TRUE],
                  err |-> "nil",
                  calls |-> <<Call("GetUndefined", 0, 0, UndefinedPtr)>>]
        ELSE IF codePtr = 0
            THEN [ret |-> ZeroValue, err |-> "alloc",
                  calls |-> <<Call("Malloc", ctx, 0, codePtr)>>]
        ELSE IF filenamePtr = 0
            THEN [ret |-> ZeroValue, err |-> "alloc", calls |-> start]
        ELSE IF errPtr # 0
            THEN [ret |-> ZeroValue, err |-> "exception",
                  calls |-> start \o eval \o release \o atEnd]
        ELSE [ret |-> [realm |-> r, ptr |-> resultPtr, borrowed |-> FALSE],
              err |-> "nil", calls |-> start \o eval \o atEnd]

\* The Value EvalCodeWithOptions returns on success, marked borrowed.
EvalResultBorrowed(r, resultPtr) == [realm |-> r, ptr |-> resultPtr, borrowed |-> TRUE]

\* The Value EvalCodeWithOptions returns on success: Value{realm: r, ptr: resultPtr}.
EvalResult(r, resultPtr) == [realm |-> r, ptr |-> resultPtr, borrowed |-> FALSE]

\* Realm.EvalCodeWithOptions from the allocation of the code string on, for
\* what the engine returns: the offsets of the two strings, the result handle,
\* the handle of the pending exception (null when there is none) and the
\* offset of its text.
EvalSource(r, codePtr, filenamePtr, resultPtr, errPtr, strPtr) ==
    LET ctx == realm[r].Pointer
        errVal == [realm |-> r, ptr |-> errPtr, borrowed |-> FALSE]
        allocCode == AllocateString(ctx, codePtr)
        allocName == AllocateString(ctx, filenamePtr)
        eval == <<Call("Eval", ctx, <<codePtr, filenamePtr>>, resultPtr),
                  Call("GetLastError", ctx, resultPtr, errPtr)>>
        deferred == FreeMemory(ctx, filenamePtr) \o FreeMemory(ctx, codePtr)
    IN  IF codePtr = 0 THEN Outcome(ZeroValue, "alloc", allocCode)
        ELSE IF filenamePtr = 0
            THEN Outcome(ZeroValue, "alloc",
                         allocCode \o allocName \o FreeMemory(ctx, codePtr))
        ELSE IF errPtr # 0
            THEN Outcome(ZeroValue, "exception",
                         allocCode \o allocName \o eval
                         \o FreeValuePointer(ctx, resultPtr)
                         \o ValueString(errVal, strPtr) \o Free(errVal)
                         \o deferred)
        ELSE Outcome(EvalResult(r, resultPtr), "nil",
                     allocCode \o allocName \o eval \o deferred)

\* Realm.EvalCodeWithOptions with the empty-source test ahead of the disposed
\* test.
EvalCodeShortcutFirst(r, code, codePtr, filenamePtr, resultPtr, errPtr, strPtr) ==
    IF Len(code) = 0 THEN Undefined(r)
    ELSE IF realm[r].disposed THEN Outcome(ZeroValue, "disposed", <<>>)
    ELSE EvalSource(r, codePtr, filenamePtr, resultPtr, errPtr, strPtr)

\* Realm.EvalCodeWithOptions on source `code`.
EvalCodeWithOptions(r, code, codePtr, filenamePtr, resultPtr, errPtr, strPtr) ==
    IF realm[r].disposed THEN Outcome(ZeroValue, "disposed", <<>>)
    ELSE IF Len(code) = 0 THEN Undefined(r)
    ELSE EvalSource(r, codePtr, filenamePtr, resultPtr, errPtr, strPtr)

\* The host keeps the Value a method returned.
Returns(op, r, out) ==
    /\ values' = Append(values, out.ret)
    /\ released' = Append(released, 0)
    /\ last' = Record(op, r, out.err, out.ret, out.calls)
    /\ Engine(out.calls)
    /\ UNCHANGED <<rt, realm, contexts, runtimes, createdWith, freeContextCount,
                   mem, thr, mu, cmMu, cmLog>>

CanReturn(r) == r \in DOMAIN realm /\ Len(values) < MaxValues

Codes == {<<>>, <<1>>}

EvalCode(r) ==
    /\ CanReturn(r)
    /\ \E code \in Codes :
       \E codePtr \in MallocResults({}) :
       \E filenamePtr \in MallocResults({codePtr}) :
       \E resultPtr \in NewValueResults(realm[r].Pointer, {}) :
       \E errPtr \in NewValueResults(realm[r].Pointer, {resultPtr}) :
       \E strPtr \in MallocResults({codePtr, filenamePtr}) :
          \* results of calls the method does not reach are fixed to 0
          /\ (realm[r].disposed \/ Len(code) = 0) => codePtr = 0
          /\ codePtr = 0 => filenamePtr = 0
          /\ filenamePtr = 0 => (resultPtr = 0 /\ errPtr = 0)
          /\ errPtr = 0 => strPtr = 0
          /\ LET out == EvalCodeWithOptions(r, code, codePtr, filenamePtr,
                                             resultPtr, errPtr, strPtr)
             IN  /\ values' = Append(values, out.ret)
                 /\ released' = Append(released, 0)
                 /\ last' = [op |-> "EvalCode", target |-> r, err |-> out.err,
                             ret |-> out.ret, calls |-> out.calls, code |-> code]
                 /\ Engine(out.calls)
                 /\ UNCHANGED <<rt, realm, contexts, runtimes, createdWith,
                                freeContextCount, mem, thr, mu, cmMu, cmLog>>

GetGlobalObject(r) ==
    /\ CanReturn(r)
    /\ \E ptr \in NewValueResults(realm[r].Pointer, {}) :
          Returns("GetGlobalObject", r, MakeValue(r, "GetGlobalObject", ptr))

NewNumber(r) ==
    /\ CanReturn(r)
    /\ \E ptr \in NewValueResults(realm[r].Pointer, {}) :
          Returns("NewNumber", r, MakeValue(r, "NewFloat64", ptr))

NewObject(r) ==
    /\ CanReturn(r)
    /\ \E ptr \in NewValueResults(realm[r].Pointer, {}) :
          Returns("NewObject", r, MakeValue(r, "NewObject", ptr))

NewArray(r) ==
    /\ CanReturn(r)
    /\ \E ptr \in NewValueResults(realm[r].Pointer, {}) :
          Returns("NewArray", r, MakeValue(r, "NewArray", ptr))

NewString(r) ==
    /\ CanReturn(r)
    /\ \E strPtr \in MallocResults({}) :
       \E ptr \in NewValueResults(realm[r].Pointer, {}) :
          Returns("NewString", r, NewStringOutcome(r, strPtr, ptr))

RealmUndefined(r) == CanReturn(r) /\ Returns("Undefined", r, Undefined(r))

RealmNull(r) == CanReturn(r) /\ Returns("Null", r, Null(r))

\* v.Free() on the i-th Value the host holds; last.ret records the receiver.
ValueFree(i) ==
    /\ i \in DOMAIN values
    /\ released[i] < MaxFree
    /\ released' = [released EXCEPT ![i] = @ + Len(Free(values[i]))]
    /\ last' = Record("Free", i, "nil", values[i], Free(values[i]))
    /\ Engine(Free(values[i]))
    /\ UNCHANGED <<rt, realm, values, contexts, runtimes, createdWith,
                   freeContextCount, mem, thr, mu, cmMu, cmLog>>

\* v.String() and v.AsNumber() on the i-th Value the host holds; last.ret
\* records the receiver.
ValueStringOf(i) ==
    /\ i \in DOMAIN values
    /\ \E strPtr \in MallocResults({}) :
          /\ values[i].realm = 0 => strPtr = 0
          /\ last' = Record("String", i, "nil", values[i], ValueString(values[i], strPtr))
          /\ Engine(ValueString(values[i], strPtr))
    /\ UNCHANGED <<rt, realm, values, contexts, runtimes, createdWith,
                   freeContextCount, released, mem, thr, mu, cmMu, cmLog>>

ValueAsNumber(i) ==
    /\ i \in DOMAIN values
    /\ last' = Record("AsNumber", i, "nil", values[i], AsNumber(values[i]))
    /\ Engine(AsNumber(values[i]))
    /\ UNCHANGED <<rt, realm, values, contexts, runtimes, createdWith,
                   freeContextCount, released, mem, thr, mu, cmMu, cmLog>>

\* v.Dup() on the i-th Value the host holds; the host keeps the duplicate.
ValueDup(i) ==
    /\ i \in DOMAIN values
    /\ Len(values) < MaxValues
    /\ \E ptr \in DupResults(values[i].ptr) :
          Returns("Dup", i, Dup(values[i], IF values[i].realm = 0 THEN 0 ELSE ptr))

\* ------------------------------------------------------ CallbackManager
ModuleSourceError == 2

\* handleInterrupt answering true for a runtime handle it does not know.
handleInterruptUnknown(rtPtr) == rtPtr \notin runtimes

\* The handlers: none of them looks its handle up.
handleCallFunction(ctx) == 0
handleInterrupt(rtPtr) == FALSE
handleLoadModule(rtPtr, ctx, moduleName) ==
    [srcType |-> ModuleSourceError, srcPtr |-> 0, srcLen |-> 0]
handleNormalizeModule(ctx, baseName, name) == name
handleModuleInit(ctx) == 0
handleClassConstructor(ctx) == 0

\* The host functions AddToHostModule exports to the engine, on memory m: the
\* memory afterwards and the value returned (0 for a function without result).
call_function(m, jsCtx) == [mem |-> m, ret |-> handleCallFunction(jsCtx)]

interrupt_handler(m, rtPtr) ==
    [mem |-> m, ret |-> IF handleInterrupt(rtPtr) THEN 1 ELSE 0]

normalize_module(m, jsCtx, baseNamePtr, namePtr, outPtr) ==
    LET baseName == ReadString(m, baseNamePtr).s
        name == ReadString(m, namePtr).s
        result == handleNormalizeModule(jsCtx, baseName, name)
    IN  [mem |-> WriteBytes(m, outPtr, result).mem, ret |-> Len(result)]

load_module(m, rtPtr, jsCtx, moduleNamePtr, outPtr) ==
    LET moduleName == ReadString(m, moduleNamePtr).s
        src == handleLoadModule(rtPtr, jsCtx, moduleName)
        m1 == WriteUint32(m, outPtr, src.srcType).mem
        m2 == WriteUint32(m1, outPtr + 4, src.srcPtr).mem
        m3 == WriteUint32(m2, outPtr + 8, src.srcLen).mem
    IN  [mem |-> m3, ret |-> src.srcType]

module_init(m, jsCtx) == [mem |-> m, ret |-> handleModuleInit(jsCtx)]
class_finalizer(m, rtPtr) == [mem |-> m, ret |-> 0]
class_gc_mark(m, rtPtr) == [mem |-> m, ret |-> 0]
class_constructor(m, jsCtx) == [mem |-> m, ret |-> handleClassConstructor(jsCtx)]
promise_rejection_tracker(m, jsCtx) == [mem |-> m, ret |-> 0]

\* The engine calls a host function: last.target is the handle it passes,
\* last.args the offsets it passes, last.ret the value it gets back.
Dispatched(op, h, args, out) ==
    /\ mem' = out.mem
    /\ last' = [op |-> op, target |-> h, err |-> "nil", ret |-> out.ret,
                calls |-> <<>>, args |-> args]
    /\ UNCHANGED <<rt, realm, values, contexts, runtimes, engCtxs, engRtLive,
                   wazeroClosed, heap, refcnt, createdWith, freeContextCount,
                   released, thr, mu, cmMu, cmLog>>

NoArgs == [baseNamePtr |-> 0, namePtr |-> 0, outPtr |-> 0, name |-> <<>>, rtPtr |-> 0]

CallFunction(h) == Dispatched("call_function", h, NoArgs, call_function(mem, h))
InterruptHandler(h) == Dispatched("interrupt_handler", h, NoArgs, interrupt_handler(mem, h))
ModuleInit(h) == Dispatched("module_init", h, NoArgs, module_init(mem, h))
ClassFinalizer(h) == Dispatched("class_finalizer", h, NoArgs, class_finalizer(mem, h))
ClassGCMark(h) == Dispatched("class_gc_mark", h, NoArgs, class_gc_mark(mem, h))
ClassConstructor(h) == Dispatched("class_constructor", h, NoArgs, class_constructor(mem, h))
PromiseRejectionTracker(h) ==
    Dispatched("promise_rejection_tracker", h, NoArgs, promise_rejection_tracker(mem, h))

\* load_module called with runtime handle rtPtr, context handle h, the module
\* name at moduleNamePtr and the output struct at outPtr.
LoadModule(rtPtr, h, moduleNamePtr, outPtr) ==
    Dispatched("load_module", h,
               [NoArgs EXCEPT !.namePtr = moduleNamePtr, !.outPtr = outPtr,
                              !.rtPtr = rtPtr],
               load_module(mem, rtPtr, h, moduleNamePtr, outPtr))

\* normalize_module called with context handle h after the engine has stored
\* the zero-terminated module name at namePtr; the base name is at baseNamePtr.
NormalizeModule(h, name, baseNamePtr, namePtr, outPtr) ==
    LET stored == MemWrite(mem, namePtr, name \o <<0>>).mem
    IN  Dispatched("normalize_module", h,
                   [NoArgs EXCEPT !.baseNamePtr = baseNamePtr, !.namePtr = namePtr,
                                  !.outPtr = outPtr, !.name = name],
                   normalize_module(stored, h, baseNamePtr, namePtr, outPtr))

\* Memory.ReadString and MemoryManager.ReadNullTerminatedString at an offset.
MemReadString(offset) ==
    /\ last' = [op |-> "ReadString", target |-> offset, err |-> "nil",
                ret |-> ReadString(mem, offset), calls |-> <<>>]
    /\ UNCHANGED <<rt, realm, values, contexts, runtimes, engCtxs, engRtLive,
                   wazeroClosed, heap, refcnt, createdWith, freeContextCount,
                   released, mem, thr, mu, cmMu, cmLog>>

MemReadNullTerminatedString(offset) ==
    /\ last' = [op |-> "ReadNullTerminatedString", target |-> offset, err |-> "nil",
                ret |-> [s |-> ReadNullTerminatedString(mem, offset), ok |-> TRUE],
                calls |-> <<>>]
    /\ UNCHANGED <<rt, realm, values, contexts, runtimes, engCtxs, engRtLive,
                   wazeroClosed, heap, refcnt, createdWith, freeContextCount,
                   released, mem, thr, mu, cmMu, cmLog>>

Next ==
    \/ CreateRealm
    \/ RuntimeForward
    \/ \E r \in 1..MaxRealms : RealmClose(r)
    \/ RuntimeClose
    \/ \E r \in 1..MaxRealms :
          \/ EvalCode(r)
          \/ GetGlobalObject(r)
          \/ RealmUndefined(r)
          \/ RealmNull(r)
          \/ NewString(r)
          \/ NewNumber(r)
          \/ NewObject(r)
          \/ NewArray(r)
    \/ \E i \in 1..MaxValues : ValueFree(i)
    \/ \E i \in 1..MaxValues : ValueDup(i)

Spec == Init /\ [][Next]_vars

\* The Runtime's and the Realms' lifetime alone: no Value is made.
NextLifecycle ==
    \/ CreateRealm
    \/ RuntimeForward
    \/ \E r \in 1..MaxRealms : RealmClose(r)
    \/ RuntimeClose

SpecLifecycle == Init /\ [][NextLifecycle]_vars

\* The state after New and one successful CreateRealm call that got the
\* handle 1.
InitValues ==
    /\ rt = [Pointer |-> RtPtr, disposed |-> FALSE,
             realms |-> {<<1, 1>>}, realmsNil |-> FALSE]
    /\ realm = <<[Pointer |-> 1, disposed |-> FALSE]>>
    /\ values = <<>>
    /\ contexts = {<<1, 1>>}
    /\ runtimes = {RtPtr}
    /\ engCtxs = {1}
    /\ engRtLive = TRUE
    /\ wazeroClosed = FALSE
    /\ heap = {}
    /\ refcnt = [h \in VHandles |-> 0]
    /\ createdWith = <<1>>
    /\ freeContextCount = <<0>>
    /\ released = <<>>
    /\ mem = ZeroMemory
    /\ thr = [t \in Threads |-> IdleThread]
    /\ mu = 0
    /\ cmMu = 0
    /\ cmLog = <<>>
    /\ last = Record("CreateRealm", 1, "nil", ZeroValue,
                     <<Call("NewContext", RtPtr, 0, 1),
                       Call("RegisterContext", 1, 1, 0)>>)

\* Values made on one Realm and freed, and the Realm and the Runtime closed
\* under them; no further Realm is created.
NextValues ==
    \/ \E r \in DOMAIN realm :
          \/ EvalCode(r)
          \/ GetGlobalObject(r)
          \/ RealmUndefined(r)
          \/ RealmNull(r)
          \/ NewString(r)
          \/ NewNumber(r)
          \/ NewObject(r)
          \/ NewArray(r)
          \/ RealmClose(r)
    \/ \E i \in 1..MaxValues : ValueFree(i)
    \/ RuntimeClose

SpecValues == InitValues /\ [][NextValues]_vars

\* Values made on one live Realm, duplicated and freed by a host that frees
\* each Value once and does not use a Value it has freed.
DupHeld(i) == i \in DOMAIN values /\ released[i] = 0 /\ ValueDup(i)

FreeHeld(i) == i \in DOMAIN values /\ released[i] = 0 /\ ValueFree(i)

NextDup ==
    \/ \E r \in DOMAIN realm :
          \/ EvalCode(r)
          \/ GetGlobalObject(r)
          \/ RealmUndefined(r)
          \/ NewString(r)
    \/ \E i \in 1..MaxValues : DupHeld(i)
    \/ \E i \in 1..MaxValues : FreeHeld(i)

SpecDup == InitValues /\ [][NextDup]_vars

\* Sources evaluated on one Realm, the results read and freed, and the Realm
\* closed; every owned Value the host holds is the result of an evaluation.
NextEval ==
    \/ \E r \in DOMAIN realm :
          \/ EvalCode(r)
          \/ RealmClose(r)
    \/ \E i \in 1..MaxValues : ValueStringOf(i)
    \/ \E i \in 1..MaxValues : ValueAsNumber(i)
    \/ \E i \in 1..MaxValues : ValueFree(i)

SpecEval == InitValues /\ [][NextEval]_vars

\* The memory alone.  Its content is drawn at the start: MemSize bytes, the
\* last MaxTail of them any of Bytes and the ones before them FillByte.
\* Strings are read at offsets around the end of the memory, and load_module
\* is called once, on the memory as drawn, with any output offset.
Bytes == {0, 65, 66}
FillByte == 7

MemInputs ==
    {[i \in 1..MemSize |-> IF i <= MemSize - MaxTail THEN FillByte
                           ELSE tail[i - (MemSize - MaxTail)]] :
        tail \in [1..MaxTail -> Bytes]}

ReadOffsets == {0, AddrSpace - 1} \cup ((MemSize - MaxTail - 1)..(MemSize + 1))

InitMemory == \E m \in MemInputs : InitWith(m)

LoadModuleOnce(outPtr) == mem \in MemInputs /\ LoadModule(RtPtr, 0, 0, outPtr)

NextMemory ==
    \/ \E offset \in ReadOffsets : MemReadString(offset)
    \/ \E offset \in ReadOffsets : MemReadNullTerminatedString(offset)
    \/ \E outPtr \in 0..(AddrSpace - 1) : LoadModuleOnce(outPtr)

SpecMemory == InitMemory /\ [][NextMemory]_vars

\* The engine calling back into the host while one Realm and the Runtime are
\* live and after they are closed, with handles that are registered, were
\* registered or never were.
CallbackHandles == 0..RtPtr
Names == {<<>>, <<65>>, <<65, 66>>}

NextCallbacks ==
    \/ \E r \in DOMAIN realm : RealmClose(r)
    \/ RuntimeClose
    \/ \E h \in CallbackHandles : CallFunction(h)
    \/ \E h \in CallbackHandles : InterruptHandler(h)
    \/ \E h \in CallbackHandles, name \in Names, outPtr \in {4, MemSize - 1} :
          NormalizeModule(h, name, 0, 1, outPtr)
    \/ \E rtPtr \in {0, RtPtr}, h \in CallbackHandles : LoadModule(rtPtr, h, 1, 2)
    \/ \E h \in CallbackHandles : ModuleInit(h)
    \/ \E h \in CallbackHandles : ClassFinalizer(h)
    \/ \E h \in CallbackHandles : ClassGCMark(h)
    \/ \E h \in CallbackHandles : ClassConstructor(h)
    \/ \E h \in CallbackHandles : PromiseRejectionTracker(h)

SpecCallbacks == InitValues /\ [][NextCallbacks]_vars

\* ------------------------------------------------- goroutines, step by step
\* Each goroutine makes one call: CreateRealm, Runtime.Close, Realm.Close or
\* EvalCode.  A step is one access to a field that goroutines share, one
\* operation on Runtime.mu, one CallbackManager method (which runs under the
\* manager's own lock) or one engine call.  thr[t] holds the method's locals:
\* r the Realm worked on, ptr the handle last read, todo the Realms the range
\* loop has yet to visit.  thr[t].fault records an access the runtime or the
\* engine does not allow; thr[t].freedRt that the goroutine called FreeRuntime.
Untouched == <<values, heap, refcnt, released, mem, cmMu, cmLog, last>>

At(t, pc) == thr[t].pc = pc

Goto(t, pc) == thr' = [thr EXCEPT ![t].pc = pc]

Return(t, err) == thr' = [thr EXCEPT ![t].pc = "done", ![t].err = err]

\* CreateRealm: `if rt.disposed`
CrCheck(t) ==
    /\ At(t, "idle")
    /\ thr' = [thr EXCEPT ![t].op = "CreateRealm",
                          ![t].pc = IF rt.disposed THEN "done" ELSE "cr_new",
                          ![t].err = IF rt.disposed THEN "disposed" ELSE "none"]
    /\ UNCHANGED <<rt, realm, contexts, runtimes, engCtxs, engRtLive, wazeroClosed,
                   createdWith, freeContextCount, mu>>
    /\ UNCHANGED Untouched

\* CreateRealm: NewContext(rt.Pointer) and the Realm struct.  On a runtime
\* handle that is freed or null the call is outside the engine's contract.
CrNewContext(t) ==
    /\ At(t, "cr_new")
    /\ Len(realm) < MaxRealms
    /\ \E ctxPtr \in NewContextResults :
          LET fault == IF engRtLive /\ rt.Pointer # 0 THEN thr[t].fault
                       ELSE "NewContext on a freed runtime"
          IN  IF ctxPtr = 0
              THEN /\ thr' = [thr EXCEPT ![t].pc = "done", ![t].err = "null",
                                         ![t].fault = fault]
                   /\ UNCHANGED <<realm, engCtxs, createdWith, freeContextCount>>
              ELSE /\ thr' = [thr EXCEPT ![t].pc = "cr_lock", ![t].ptr = ctxPtr,
                                         ![t].r = Len(realm) + 1,
                                         ![t].fault = fault]
                   /\ realm' = Append(realm, [Pointer |-> ctxPtr, disposed |-> FALSE])
                   /\ engCtxs' = engCtxs \cup {ctxPtr}
                   /\ createdWith' = Append(createdWith, ctxPtr)
                   /\ freeContextCount' = Append(freeContextCount, 0)
    /\ UNCHANGED <<rt, contexts, runtimes, engRtLive, wazeroClosed, mu>>
    /\ UNCHANGED Untouched

\* rt.mu.Lock() in CreateRealm, dropRealm and Close
Lock(t, from, to) ==
    /\ At(t, from)
    /\ mu = 0
    /\ mu' = t
    /\ thr' = [thr EXCEPT ![t].pc = to,
                          ![t].todo = IF to = "rc_range"
                                      THEN {e[2] : e \in rt.realms} ELSE @]
    /\ UNCHANGED <<rt, realm, contexts, runtimes, engCtxs, engRtLive, wazeroClosed,
                   createdWith, freeContextCount>>
    /\ UNCHANGED Untouched

CrLock(t) == Lock(t, "cr_lock", "cr_track")

\* CreateRealm: `rt.realms[ctxPtr] = realm`; an assignment to an entry of a
\* nil map panics, and the goroutine stops with the lock held.
CrTrack(t) ==
    /\ At(t, "cr_track")
    /\ IF rt.realmsNil
       THEN /\ thr' = [thr EXCEPT ![t].pc = "panicked",
                                  ![t].fault = "assignment to entry in nil map"]
            /\ UNCHANGED rt
       ELSE /\ rt' = [rt EXCEPT !.realms = Put(@, thr[t].ptr, thr[t].r)]
            /\ Goto(t, "cr_unlock")
    /\ UNCHANGED <<realm, contexts, runtimes, engCtxs, engRtLive, wazeroClosed,
                   createdWith, freeContextCount, mu>>
    /\ UNCHANGED Untouched

\* rt.mu.Unlock() in CreateRealm and Close
Unlock(t, from, to) ==
    /\ At(t, from)
    /\ mu' = 0
    /\ Goto(t, to)
    /\ UNCHANGED <<rt, realm, contexts, runtimes, engCtxs, engRtLive, wazeroClosed,
                   createdWith, freeContextCount>>
    /\ UNCHANGED Untouched

CrUnlock(t) == Unlock(t, "cr_unlock", "cr_register")

\* CreateRealm: rt.Callbacks.RegisterContext(ctxPtr, realm); return realm, nil
CrRegister(t) ==
    /\ At(t, "cr_register")
    /\ contexts' = RegisterContext(contexts, thr[t].ptr, thr[t].r)
    /\ Return(t, "nil")
    /\ UNCHANGED <<rt, realm, runtimes, engCtxs, engRtLive, wazeroClosed,
                   createdWith, freeContextCount, mu>>
    /\ UNCHANGED Untouched

\* Runtime.Close: `if rt.disposed { return nil }`
RcCheck(t) ==
    /\ At(t, "idle")
    /\ thr' = [thr EXCEPT ![t].op = "RuntimeClose",
                          ![t].pc = IF rt.disposed THEN "done" ELSE "rc_set",
                          ![t].err = IF rt.disposed THEN "nil" ELSE "none"]
    /\ UNCHANGED <<rt, realm, contexts, runtimes, engCtxs, engRtLive, wazeroClosed,
                   createdWith, freeContextCount, mu>>
    /\ UNCHANGED Untouched

\* Runtime.Close: `rt.disposed = true`
RcSet(t) ==
    /\ At(t, "rc_set")
    /\ rt' = [rt EXCEPT !.disposed = TRUE]
    /\ Goto(t, "rc_lock")
    /\ UNCHANGED <<realm, contexts, runtimes, engCtxs, engRtLive, wazeroClosed,
                   createdWith, freeContextCount, mu>>
    /\ UNCHANGED Untouched

RcLock(t) == Lock(t, "rc_lock", "rc_range")

\* Runtime.Close: the range loop takes the next Realm, or ends.
RcRange(t) ==
    /\ At(t, "rc_range")
    /\ IF thr[t].todo = {}
       THEN Goto(t, "rc_nil")
       ELSE \E r \in thr[t].todo :
              thr' = [thr EXCEPT ![t].pc = "dispose_check", ![t].r = r,
                                 ![t].todo = @ \ {r}]
    /\ UNCHANGED <<rt, realm, contexts, runtimes, engCtxs, engRtLive, wazeroClosed,
                   createdWith, freeContextCount, mu>>
    /\ UNCHANGED Untouched

\* Where dispose returns to: the range loop of Close, or Realm.Close.
AfterDispose(t) == IF thr[t].op = "RuntimeClose" THEN "rc_range" ELSE "rl_lock"

\* Realm.dispose: `if r.disposed { return }`
DisposeCheck(t) ==
    /\ At(t, "dispose_check")
    /\ Goto(t, IF realm[thr[t].r].disposed THEN AfterDispose(t) ELSE "dispose_set")
    /\ UNCHANGED <<rt, realm, contexts, runtimes, engCtxs, engRtLive, wazeroClosed,
                   createdWith, freeContextCount, mu>>
    /\ UNCHANGED Untouched

\* Realm.dispose: `r.disposed = true`
DisposeSet(t) ==
    /\ At(t, "dispose_set")
    /\ realm' = [realm EXCEPT ![thr[t].r].disposed = TRUE]
    /\ Goto(t, "dispose_free")
    /\ UNCHANGED <<rt, contexts, runtimes, engCtxs, engRtLive, wazeroClosed,
                   createdWith, freeContextCount, mu>>
    /\ UNCHANGED Untouched

\* Realm.dispose: `if r.Pointer != 0 { FreeContext(r.Pointer)`
DisposeFree(t) ==
    /\ At(t, "dispose_free")
    /\ IF realm[thr[t].r].Pointer # 0
       THEN /\ engCtxs' = engCtxs \ {realm[thr[t].r].Pointer}
            /\ freeContextCount' = [freeContextCount EXCEPT ![thr[t].r] = @ + 1]
            /\ Goto(t, "dispose_zero")
       ELSE /\ Goto(t, AfterDispose(t))
            /\ UNCHANGED <<engCtxs, freeContextCount>>
    /\ UNCHANGED <<rt, realm, contexts, runtimes, engRtLive, wazeroClosed,
                   createdWith, mu>>
    /\ UNCHANGED Untouched

\* Realm.dispose: `r.Pointer = 0 }`
DisposeZero(t) ==
    /\ At(t, "dispose_zero")
    /\ realm' = [realm EXCEPT ![thr[t].r].Pointer = 0]
    /\ Goto(t, AfterDispose(t))
    /\ UNCHANGED <<rt, contexts, runtimes, engCtxs, engRtLive, wazeroClosed,
                   createdWith, freeContextCount, mu>>
    /\ UNCHANGED Untouched

\* Runtime.Close: `rt.realms = nil`
RcNil(t) ==
    /\ At(t, "rc_nil")
    /\ rt' = [rt EXCEPT !.realms = {}, !.realmsNil = TRUE]
    /\ Goto(t, "rc_unlock")
    /\ UNCHANGED <<realm, contexts, runtimes, engCtxs, engRtLive, wazeroClosed,
                   createdWith, freeContextCount, mu>>
    /\ UNCHANGED Untouched

RcUnlock(t) == Unlock(t, "rc_unlock", "rc_unregister")

\* Runtime.Close: `if rt.Pointer != 0 { rt.Callbacks.UnregisterRuntime(rt.Pointer)`
RcUnregister(t) ==
    /\ At(t, "rc_unregister")
    /\ IF rt.Pointer # 0
       THEN /\ runtimes' = UnregisterRuntime(runtimes, rt.Pointer)
            /\ Goto(t, "rc_free")
       ELSE /\ Goto(t, "rc_wazero")
            /\ UNCHANGED runtimes
    /\ UNCHANGED <<rt, realm, contexts, engCtxs, engRtLive, wazeroClosed,
                   createdWith, freeContextCount, mu>>
    /\ UNCHANGED Untouched

\* Runtime.Close: `rt.Registry.FreeRuntime(rt.ctx, rt.Pointer)`
RcFreeRuntime(t) ==
    /\ At(t, "rc_free")
    /\ engRtLive' = FALSE
    /\ thr' = [thr EXCEPT ![t].pc = "rc_zero", ![t].freedRt = TRUE,
                          ![t].fault = IF engRtLive /\ rt.Pointer # 0 THEN @
                                       ELSE "FreeRuntime on a freed runtime"]
    /\ UNCHANGED <<rt, realm, contexts, runtimes, engCtxs, wazeroClosed,
                   createdWith, freeContextCount, mu>>
    /\ UNCHANGED Untouched

\* Runtime.Close: `rt.Pointer = 0 }`
RcZero(t) ==
    /\ At(t, "rc_zero")
    /\ rt' = [rt EXCEPT !.Pointer = 0]
    /\ Goto(t, "rc_wazero")
    /\ UNCHANGED <<realm, contexts, runtimes, engCtxs, engRtLive, wazeroClosed,
                   createdWith, freeContextCount, mu>>
    /\ UNCHANGED Untouched

\* Runtime.Close: `return rt.wazero.Close(rt.ctx)`
RcWazero(t) ==
    /\ At(t, "rc_wazero")
    /\ wazeroClosed' = TRUE
    /\ Return(t, "nil")
    /\ UNCHANGED <<rt, realm, contexts, runtimes, engCtxs, engRtLive,
                   createdWith, freeContextCount, mu>>
    /\ UNCHANGED Untouched

\* Realm.Close: `if r.disposed { return nil }`
RlCheck(t, r) ==
    /\ At(t, "idle")
    /\ r \in DOMAIN realm
    /\ thr' = [thr EXCEPT ![t].op = "RealmClose", ![t].r = r,
                          ![t].pc = IF realm[r].disposed THEN "done" ELSE "rl_unregister",
                          ![t].err = IF realm[r].disposed THEN "nil" ELSE "none"]
    /\ UNCHANGED <<rt, realm, contexts, runtimes, engCtxs, engRtLive, wazeroClosed,
                   createdWith, freeContextCount, mu>>
    /\ UNCHANGED Untouched

\* Realm.Close: `r.Runtime.Callbacks.UnregisterContext(r.Pointer)`
RlUnregister(t) ==
    /\ At(t, "rl_unregister")
    /\ contexts' = UnregisterContext(contexts, realm[thr[t].r].Pointer)
    /\ Goto(t, "dispose_check")
    /\ UNCHANGED <<rt, realm, runtimes, engCtxs, engRtLive, wazeroClosed,
                   createdWith, freeContextCount, mu>>
    /\ UNCHANGED Untouched

RlLock(t) == Lock(t, "rl_lock", "rl_drop")

\* dropRealm: `delete(rt.realms, realm.Pointer)` and the deferred Unlock;
\* Realm.Close returns nil.
RlDrop(t) ==
    /\ At(t, "rl_drop")
    /\ rt' = [rt EXCEPT !.realms = dropRealm(@, realm[thr[t].r])]
    /\ mu' = 0
    /\ Return(t, "nil")
    /\ UNCHANGED <<realm, contexts, runtimes, engCtxs, engRtLive, wazeroClosed,
                   createdWith, freeContextCount>>
    /\ UNCHANGED Untouched

\* EvalCodeWithOptions on a non-empty source: `if r.disposed`
EvCheck(t, r) ==
    /\ At(t, "idle")
    /\ r \in DOMAIN realm
    /\ thr' = [thr EXCEPT ![t].op = "EvalCode", ![t].r = r,
                          ![t].pc = IF realm[r].disposed THEN "done" ELSE "ev_call",
                          ![t].err = IF realm[r].disposed THEN "disposed" ELSE "none"]
    /\ UNCHANGED <<rt, realm, contexts, runtimes, engCtxs, engRtLive, wazeroClosed,
                   createdWith, freeContextCount, mu>>
    /\ UNCHANGED Untouched

\* EvalCodeWithOptions: Registry.Eval(ctx, r.Pointer, ...) is entered with the
\* handle read from the Realm.
EvCall(t) ==
    /\ At(t, "ev_call")
    /\ thr' = [thr EXCEPT ![t].pc = "ev_running",
                          ![t].ptr = realm[thr[t].r].Pointer]
    /\ UNCHANGED <<rt, realm, contexts, runtimes, engCtxs, engRtLive, wazeroClosed,
                   createdWith, freeContextCount, mu>>
    /\ UNCHANGED Untouched

\* EvalCodeWithOptions: Eval returns and the method returns its result.
EvReturn(t) ==
    /\ At(t, "ev_running")
    /\ Return(t, "nil")
    /\ UNCHANGED <<rt, realm, contexts, runtimes, engCtxs, engRtLive, wazeroClosed,
                   createdWith, freeContextCount, mu>>
    /\ UNCHANGED Untouched

NextConcurrent ==
    \E t \in Threads :
        \/ CrCheck(t)
        \/ CrNewContext(t)
        \/ CrLock(t)
        \/ CrTrack(t)
        \/ CrUnlock(t)
        \/ CrRegister(t)
        \/ RcCheck(t)
        \/ RcSet(t)
        \/ RcLock(t)
        \/ RcRange(t)
        \/ DisposeCheck(t)
        \/ DisposeSet(t)
        \/ DisposeFree(t)
        \/ DisposeZero(t)
        \/ RcNil(t)
        \/ RcUnlock(t)
        \/ RcUnregister(t)
        \/ RcFreeRuntime(t)
        \/ RcZero(t)
        \/ RcWazero(t)
        \/ \E r \in 1..MaxRealms : RlCheck(t, r)
        \/ RlUnregister(t)
        \/ RlLock(t)
        \/ RlDrop(t)
        \/ \E r \in 1..MaxRealms : EvCheck(t, r)
        \/ EvCall(t)
        \/ EvReturn(t)

\* One live Realm and MaxThreads goroutines, each making one call.
SpecConcurrent == InitValues /\ [][NextConcurrent]_vars

\* -------------------------------- CallbackManager methods, step by step
\* RegisterContext, UnregisterContext, RegisterRuntime and UnregisterRuntime
\* each run `cm.mu.Lock(); defer cm.mu.Unlock()` around one map operation.
\* A goroutine makes one call: thr[t].op is the method, thr[t].ptr the handle
\* and thr[t].r the Realm passed to RegisterContext.  cmLog records the calls
\* in the order in which they took the lock.
\* The handles a caller may pass: any context handle or the null handle;
\* the Runtime's handle or the null handle.
ContextArgs == {0} \cup Handles
RuntimeArgs == {0, RtPtr}

\* The state after New and MaxRealms successful CreateRealm calls, the k-th
\* of which got the handle k.
InitManager ==
    /\ rt = [Pointer |-> RtPtr, disposed |-> FALSE,
             realms |-> {<<k, k>> : k \in 1..MaxRealms}, realmsNil |-> FALSE]
    /\ realm = [k \in 1..MaxRealms |-> [Pointer |-> k, disposed |-> FALSE]]
    /\ values = <<>>
    /\ contexts = {<<k, k>> : k \in 1..MaxRealms}
    /\ runtimes = {RtPtr}
    /\ engCtxs = 1..MaxRealms
    /\ engRtLive = TRUE
    /\ wazeroClosed = FALSE
    /\ heap = {}
    /\ refcnt = [h \in VHandles |-> 0]
    /\ createdWith = [k \in 1..MaxRealms |-> k]
    /\ freeContextCount = [k \in 1..MaxRealms |-> 0]
    /\ released = <<>>
    /\ mem = ZeroMemory
    /\ thr = [t \in Threads |-> IdleThread]
    /\ mu = 0
    /\ cmMu = 0
    /\ cmLog = <<>>
    /\ last = Record("CreateRealm", MaxRealms, "nil", ZeroValue,
                     <<Call("NewContext", RtPtr, 0, MaxRealms),
                       Call("RegisterContext", MaxRealms, MaxRealms, 0)>>)

ManagerUntouched ==
    <<rt, realm, values, engCtxs, engRtLive, wazeroClosed, heap, refcnt,
      createdWith, freeContextCount, released, mem, mu, last>>

\* A Lock that never waits for the holder to unlock.
LockFreeAlways(holder) == TRUE

\* sync.RWMutex.Lock returns once no goroutine holds the lock.
LockFree(holder) == holder = 0

\* The call and its `cm.mu.Lock()`: the goroutine enters the method with its
\* arguments and takes the lock.
CmLock(t, op, ptr, r) ==
    /\ At(t, "idle")
    /\ LockFree(cmMu)
    /\ cmMu' = t
    /\ cmLog' = Append(cmLog, [op |-> op, ptr |-> ptr, r |-> r])
    /\ thr' = [thr EXCEPT ![t].op = op, ![t].ptr = ptr, ![t].r = r,
                          ![t].pc = "cm_write"]
    /\ UNCHANGED <<contexts, runtimes>>
    /\ UNCHANGED ManagerUntouched

\* `cm.contexts[ptr] = realm`
CmRegisterContext(t) ==
    /\ At(t, "cm_write")
    /\ thr[t].op = "RegisterContext"
    /\ contexts' = RegisterContext(contexts, thr[t].ptr, thr[t].r)
    /\ Goto(t, "cm_unlock")
    /\ UNCHANGED <<runtimes, cmMu, cmLog>>
    /\ UNCHANGED ManagerUntouched

\* `delete(cm.contexts, ptr)`
CmUnregisterContext(t) ==
    /\ At(t, "cm_write")
    /\ thr[t].op = "UnregisterContext"
    /\ contexts' = UnregisterContext(contexts, thr[t].ptr)
    /\ Goto(t, "cm_unlock")
    /\ UNCHANGED <<runtimes, cmMu, cmLog>>
    /\ UNCHANGED ManagerUntouched

\* CallbackManager.RegisterRuntime: `cm.runtimes[ptr] = rt`
RegisterRuntime(m, ptr) == m \cup {ptr}

CmRegisterRuntime(t) ==
    /\ At(t, "cm_write")
    /\ thr[t].op = "RegisterRuntime"
    /\ runtimes' = RegisterRuntime(runtimes, thr[t].ptr)
    /\ Goto(t, "cm_unlock")
    /\ UNCHANGED <<contexts, cmMu, cmLog>>
    /\ UNCHANGED ManagerUntouched

\* `delete(cm.runtimes, ptr)`
CmUnregisterRuntime(t) ==
    /\ At(t, "cm_write")
    /\ thr[t].op = "UnregisterRuntime"
    /\ runtimes' = UnregisterRuntime(runtimes, thr[t].ptr)
    /\ Goto(t, "cm_unlock")
    /\ UNCHANGED <<contexts, cmMu, cmLog>>
    /\ UNCHANGED ManagerUntouched

\* The deferred `cm.mu.Unlock()`; the method returns.
CmUnlock(t) ==
    /\ At(t, "cm_unlock")
    /\ cmMu' = 0
    /\ Return(t, "nil")
    /\ UNCHANGED <<contexts, runtimes, cmLog>>
    /\ UNCHANGED ManagerUntouched

NextManager ==
    \E t \in Threads :
        \/ \E ptr \in ContextArgs, r \in DOMAIN realm :
              CmLock(t, "RegisterContext", ptr, r)
        \/ \E ptr \in ContextArgs : CmLock(t, "UnregisterContext", ptr, 0)
        \/ \E ptr \in RuntimeArgs : CmLock(t, "RegisterRuntime", ptr, 0)
        \/ \E ptr \in RuntimeArgs : CmLock(t, "UnregisterRuntime", ptr, 0)
        \/ CmRegisterContext(t)
        \/ CmUnregisterContext(t)
        \/ CmRegisterRuntime(t)
        \/ CmUnregisterRuntime(t)
        \/ CmUnlock(t)

\* MaxRealms registered Realms and MaxThreads goroutines, each making one
\* call of a CallbackManager method.
SpecManager == InitManager /\ [][NextManager]_vars

\* ------------------------------------------------------------ properties
Live(r) == r \in DOMAIN realm /\ ~realm[r].disposed

CallsTo(calls, fn) == Cardinality({i \in DOMAIN calls : calls[i].fn = fn})

CallsReturning(calls, fns, ret) ==
    Cardinality({i \in DOMAIN calls : calls[i].fn \in fns /\ calls[i].ret = ret})

StateUnchanged ==
    UNCHANGED <<rt, realm, values, contexts, runtimes, engCtxs, engRtLive,
                wazeroClosed, heap, refcnt, createdWith, freeContextCount,
                released, mem, thr, mu, cmMu, cmLog>>

RuntimeMethods == {"CreateRealm", "SetMemoryLimit", "RunGC",
                   "IsMicrotaskPending", "ExecuteMicrotasks"}

RealmMethods == {"EvalCode", "GetGlobalObject", "Undefined", "Null",
                 "NewString", "NewNumber", "NewObject", "NewArray"}

\* C1: a Realm's context handle is in CallbackManager.contexts, mapped to that
\* Realm, if and only if the Realm is live.
C1_RegisteredIffLive ==
    \A r \in DOMAIN realm : (<<createdWith[r], r>> \in contexts) <=> Live(r)

\* C2: once Runtime.Close has returned, every Realm is disposed with its
\* handle freed by the engine (FreeContext issued once, no context left live)
\* and reset to 0, the tracking map is released and empty, the disposed flag
\* is set and Runtime.Pointer is 0.
C2_CloseDisposesAll ==
    rt.disposed =>
        /\ \A r \in DOMAIN realm :
              /\ realm[r].disposed
              /\ realm[r].Pointer = 0
              /\ freeContextCount[r] = 1
        /\ engCtxs = {}
        /\ rt.realms = {}
        /\ rt.realmsNil
        /\ rt.Pointer = 0

\* Runtime.Close has just torn down a Runtime with two live Realms.
C2_Witness ==
    /\ rt.disposed
    /\ last.op = "RuntimeClose"
    /\ CallsTo(last.calls, "FreeContext") >= 2

\* C3: on a closed Runtime every Runtime method fails with the disposal error
\* and calls no engine entry point.
C3_RuntimeMethodsRejected ==
    (rt.disposed /\ last.op \in RuntimeMethods) =>
        (last.err = "disposed" /\ EngineCallsOf(last.calls) = <<>>)

\* C4: on a disposed Realm every Facade operation fails with the disposal
\* error and calls no engine entry point.
C4_RealmMethodsRejected ==
    (last.op \in RealmMethods /\ realm[last.target].disposed) =>
        (last.err = "disposed" /\ EngineCallsOf(last.calls) = <<>>)

\* C5: whatever the number of Free calls on a Value, the engine's release
\* entry point is invoked through it at most once.
C5_ReleasedOnce ==
    \A i \in DOMAIN values : released[i] <= 1

\* C6: no string allocated through AllocateString outlives the method that
\* allocated it, and within EvalCodeWithOptions every string the allocator
\* returned is freed exactly once, every string ToCString returned is freed
\* exactly once, on the exception path the eval result and the exception
\* handle are each released exactly once, and the only handle made and not
\* released is the one of the Value returned on success.
C6_EvalReleasesAll ==
    /\ heap = {}
    /\ last.op = "EvalCode" =>
         LET cs == last.calls
         IN  /\ \A p \in Offsets :
                  /\ CallsReturning(cs, {"Malloc"}, p) <= 1
                  /\ CountCalls(cs, "Free", p) = CallsReturning(cs, {"Malloc"}, p)
                  /\ CallsReturning(cs, {"ToCString"}, p) <= 1
                  /\ CountCalls(cs, "FreeCString", p)
                        = CallsReturning(cs, {"ToCString"}, p)
             /\ CountCalls(cs, "Free", 0) = 0
             /\ last.err = "exception" =>
                  \A i \in DOMAIN cs :
                      (cs[i].fn \in {"Eval", "GetLastError"} /\ cs[i].ret # 0) =>
                          CountCalls(cs, "FreeValuePointer", cs[i].ret) = 1
             /\ \A h \in VHandles :
                  CallsReturning(cs, ValueMakers, h)
                      - CountCalls(cs, "FreeValuePointer", h)
                    = IF last.err = "nil" /\ ~last.ret.borrowed /\ last.ret.ptr = h
                      THEN 1 ELSE 0

\* EvalCodeWithOptions has returned an evaluation error after allocating both
\* strings, getting a result handle, an exception handle and its text.
C6_Witness ==
    /\ last.op = "EvalCode"
    /\ last.err = "exception"
    /\ CallsTo(last.calls, "Free") = 2
    /\ CallsTo(last.calls, "FreeCString") = 1
    /\ CallsTo(last.calls, "FreeValuePointer") = 2

\* C7: Runtime.Close on a disposed Runtime returns nil, makes no call and
\* changes neither the Runtime, the Realms, the CallbackManager's maps nor the
\* engine.
C7_CloseIdempotent ==
    [][(rt.disposed /\ last'.op = "RuntimeClose") =>
          (last'.calls = <<>> /\ last'.err = "nil" /\ StateUnchanged)]_vars

\* Runtime.Close has returned on a Runtime that was closed before.
C7_Witness ==
    /\ rt.disposed
    /\ last.op = "RuntimeClose"
    /\ last.calls = <<>>

\* C8: FreeContext is issued once for the handle of every disposed Realm and
\* never for a live one, and Realm.Close on a disposed Realm makes no call,
\* raises no error and changes no state.
C8_RealmDisposedOnce ==
    /\ [](\A r \in DOMAIN realm :
             freeContextCount[r] = IF realm[r].disposed THEN 1 ELSE 0)
    /\ [][\A r \in DOMAIN realm :
             (realm[r].disposed /\ last'.op = "RealmClose" /\ last'.target = r) =>
                 (last'.calls = <<>> /\ last'.err = "nil" /\ StateUnchanged)]_vars

\* A Realm was closed by Realm.Close, then the Runtime was closed, then
\* Realm.Close was called on the Realm again.
C8_Witness ==
    /\ rt.disposed
    /\ last.op = "RealmClose"
    /\ last.calls = <<>>
    /\ freeContextCount[last.target] = 1
    /\ createdWith[last.target] \notin Keys(contexts)

\* C9: the tracking map holds exactly the live Realms, each under the handle
\* it was created with.
C9_TrackingExact ==
    rt.realms = {<<createdWith[r], r>> : r \in {x \in DOMAIN realm : Live(x)}}

\* C10: Free on a borrowed Value, on a Value with the null handle or on a
\* Value with no owning Realm never invokes the engine's release entry point.
C10_BorrowedNeverReleased ==
    /\ \A i \in DOMAIN values :
          (values[i].borrowed \/ values[i].ptr = 0 \/ values[i].realm = 0) =>
              released[i] = 0
    /\ (last.op = "Free"
        /\ (last.ret.borrowed \/ last.ret.ptr = 0 \/ last.ret.realm = 0)) =>
           last.calls = <<>>

\* Free has returned on the Value that Undefined() or Null() gave.
C10_Witness ==
    /\ last.op = "Free"
    /\ last.ret.borrowed
    /\ last.ret.realm # 0
    /\ last.ret.ptr # 0

\* C11: reference counting is additive and independent.  The reference count
\* of every handle is the number of owned Values holding it that the host has
\* not freed; Dup on a Value with an owning Realm calls DupValuePointer once
\* on the Value's handle, adds one reference to it and changes nothing else,
\* and returns a non-borrowed Value of the same Realm with that handle; Free
\* on an owned Value takes exactly one reference away, so Dup followed by Free
\* of the duplicate leaves the count as it was.
C11_DupAdditive ==
    /\ [](\A h \in VHandles :
             refcnt[h] = Cardinality({i \in DOMAIN values :
                                        /\ values[i].ptr = h
                                        /\ ~values[i].borrowed
                                        /\ released[i] = 0}))
    /\ [][\A i \in DOMAIN values :
             (last'.op = "Dup" /\ last'.target = i /\ values[i].realm # 0) =>
                 /\ Len(last'.calls) = 1
                 /\ last'.calls[1].fn = "DupValuePointer"
                 /\ last'.calls[1].arg = values[i].ptr
                 /\ last'.ret = [realm |-> values[i].realm, ptr |-> values[i].ptr,
                                 borrowed |-> FALSE]
                 /\ refcnt' = [h \in VHandles |->
                                 IF h = values[i].ptr THEN refcnt[h] + 1
                                 ELSE refcnt[h]]
                 /\ heap' = heap]_vars
    /\ [][\A i \in DOMAIN values :
             (last'.op = "Free" /\ last'.target = i /\ ~values[i].borrowed) =>
                 refcnt' = [h \in VHandles |->
                               IF h = values[i].ptr THEN refcnt[h] - 1
                               ELSE refcnt[h]]]_vars

\* The duplicate of an owned Value has been freed while the Value it was made
\* from is still held: the handle is back at one reference.
C11_Witness ==
    /\ last.op = "Free"
    /\ last.target > 1
    /\ \E i \in DOMAIN values :
          /\ i < last.target
          /\ values[i].ptr = last.ret.ptr
          /\ values[i].ptr \in VHandles
          /\ ~values[i].borrowed
          /\ released[i] = 0
          /\ refcnt[values[i].ptr] = 1

\* C15: when the allocator returns the null offset during EvalCode or
\* NewString, the method reports the failure and calls neither Eval nor
\* NewString with a null string offset.
C15_AllocFailurePropagated ==
    (last.op \in {"EvalCode", "NewString"}
     /\ CallsReturning(last.calls, {"Malloc"}, 0) > 0) =>
        /\ last.err = "alloc"
        /\ \A i \in DOMAIN last.calls :
              /\ last.calls[i].fn = "Eval" =>
                    (last.calls[i].arg[1] # 0 /\ last.calls[i].arg[2] # 0)
              /\ last.calls[i].fn = "NewString" => last.calls[i].arg # 0

\* C18: EvalCode on a non-empty source and a live Realm, with both strings
\* allocated, calls Eval once; when the engine then reports no pending
\* exception the method returns a nil error and the owned Value of that Realm
\* whose handle is the one Eval returned.  String and AsNumber on a Value with
\* an owning Realm read the Value's own handle, and one Free call on an owned
\* Value with a non-null handle releases that handle once.
C18_EvalReturnsResult ==
    /\ (last.op = "EvalCode" /\ Len(last.code) > 0 /\ Live(last.target)
         /\ CallsReturning(last.calls, {"Malloc"}, 0) = 0) =>
            CallsTo(last.calls, "Eval") = 1
    /\ (last.op = "EvalCode" /\ CallsReturning(last.calls, {"GetLastError"}, 0) = 1) =>
          /\ last.err = "nil"
          /\ ~last.ret.borrowed
          /\ last.ret.realm = last.target
          /\ \E i \in DOMAIN last.calls :
                /\ last.calls[i].fn = "Eval"
                /\ last.calls[i].ret = last.ret.ptr
          /\ CountCalls(last.calls, "FreeValuePointer", last.ret.ptr) = 0
    /\ (last.op = "String" /\ last.ret.realm # 0) =>
          (last.calls[1].fn = "ToCString" /\ last.calls[1].arg = last.ret.ptr)
    /\ (last.op = "AsNumber" /\ last.ret.realm # 0) =>
          (last.calls[1].fn = "GetFloat64" /\ last.calls[1].arg = last.ret.ptr)
    /\ (last.op = "Free" /\ ~last.ret.borrowed /\ last.ret.realm # 0
         /\ last.ret.ptr # 0) =>
          /\ Len(last.calls) = 1
          /\ last.calls[1].fn = "FreeValuePointer"
          /\ last.calls[1].arg = last.ret.ptr

\* The result of an evaluation on a live Realm has been freed for the first
\* time: its handle has no reference left.
C18_Witness ==
    /\ last.op = "Free"
    /\ last.ret.ptr \in VHandles
    /\ ~last.ret.borrowed
    /\ released[last.target] = 1
    /\ refcnt[last.ret.ptr] = 0
    /\ Live(last.ret.realm)

\* C19: EvalCode with an empty source returns, on a live Realm, the borrowed
\* undefined Value and a nil error without allocating a string or calling
\* Eval; on a disposed Realm it returns the disposal error and makes no call.
C19_EmptySourceShortcut ==
    (last.op = "EvalCode" /\ Len(last.code) = 0) =>
        IF realm[last.target].disposed
        THEN /\ last.err = "disposed"
             /\ last.ret = ZeroValue
             /\ last.calls = <<>>
        ELSE /\ last.err = "nil"
             /\ last.ret = [realm |-> last.target, ptr |-> UndefinedPtr,
                            borrowed |-> TRUE]
             /\ CallsTo(last.calls, "Malloc") = 0
             /\ CallsTo(last.calls, "Eval") = 0
             /\ EngineCallsOf(last.calls) = <<Call("GetUndefined", 0, 0, UndefinedPtr)>>

\* EvalCode has been called with an empty source on a disposed Realm.
C19_Witness ==
    /\ last.op = "EvalCode"
    /\ Len(last.code) = 0
    /\ realm[last.target].disposed
    /\ last.err = "disposed"

\* C20: when Runtime.Close tears a Runtime down it calls FreeContext on the
\* handle of every Realm that is live at the call, then UnregisterRuntime,
\* then FreeRuntime, then closes the engine instance, and nothing else: no
\* FreeContext comes after FreeRuntime.
C20_TeardownOrder ==
    [][(last'.op = "RuntimeClose" /\ ~rt.disposed) =>
          LET cs == last'.calls
              n == Len(cs)
          IN  /\ n >= 3
              /\ cs[n].fn = "WazeroClose"
              /\ cs[n - 1].fn = "FreeRuntime"
              /\ cs[n - 2].fn = "UnregisterRuntime"
              /\ \A i \in 1..(n - 3) : cs[i].fn = "FreeContext"
              /\ {cs[i].on : i \in 1..(n - 3)}
                    = {realm[r].Pointer : r \in {x \in DOMAIN realm : Live(x)}}
              /\ n - 3 = Cardinality({x \in DOMAIN realm : Live(x)})]_vars

\* Runtime.Close has torn down a Runtime on which one Realm was live and
\* another had been closed before.
C20_Witness ==
    /\ last.op = "RuntimeClose"
    /\ CallsTo(last.calls, "FreeContext") = 1
    /\ CallsTo(last.calls, "FreeRuntime") = 1
    /\ Len(realm) = 2

\* C14: Memory.ReadString succeeds exactly when the offset is inside the
\* memory and a zero byte lies between the offset and the end of the memory,
\* and then returns the bytes before the first such zero; otherwise it
\* returns ok = false and no data.
C14_ReadStringTerminated ==
    last.op = "ReadString" =>
        LET off == last.target
            zeros == {i \in (off + 1)..Len(mem) : mem[i] = 0}
            first == CHOOSE i \in zeros : \A j \in zeros : i <= j
        IN  IF off < Len(mem) /\ zeros # {}
            THEN last.ret.ok /\ last.ret.s = SubSeq(mem, off + 1, first - 1)
            ELSE ~last.ret.ok /\ last.ret.s = <<>>

\* C17: load_module returns the source type of its handler, which is the
\* error source type 2, and changes no byte of the memory outside the twelve
\* at outPtr .. outPtr + 11; when these lie inside the memory they hold, least
\* significant byte first, the 32-bit source type at outPtr, the payload
\* offset at outPtr + 4 and the payload length at outPtr + 8.
C17_LoadModuleLayout ==
    [][last'.op = "load_module" =>
          LET outPtr == last'.args.outPtr
              struct == {Wrap(outPtr + k) + 1 : k \in 0..11}
          IN  /\ last'.ret = ModuleSourceError
              /\ Len(mem') = Len(mem)
              /\ \A i \in DOMAIN mem : i \notin struct => mem'[i] = mem[i]
              /\ outPtr + 12 <= Len(mem) =>
                    /\ SubSeq(mem', outPtr + 1, outPtr + 4) = <<2, 0, 0, 0>>
                    /\ SubSeq(mem', outPtr + 5, outPtr + 8) = <<0, 0, 0, 0>>
                    /\ SubSeq(mem', outPtr + 9, outPtr + 12) = <<0, 0, 0, 0>>]_vars

\* load_module has written its struct inside the memory, over bytes that
\* were not zero.
C17_Witness ==
    /\ last.op = "load_module"
    /\ last.args.outPtr + 12 <= Len(mem)
    /\ last.args.outPtr > 0
    /\ mem[last.args.outPtr] = FillByte
    /\ SubSeq(mem, last.args.outPtr + 1, last.args.outPtr + 12)
          = <<2, 0, 0, 0, 0, 0, 0, 0, 0, 0, 0, 0>>

ContextSurfaces == {"call_function", "normalize_module", "module_init",
                    "class_constructor", "promise_rejection_tracker"}
RuntimeSurfaces == {"interrupt_handler", "class_finalizer", "class_gc_mark"}
Surfaces == ContextSurfaces \cup RuntimeSurfaces \cup {"load_module"}

\* C16: no callback changes the CallbackManager's maps, and a callback whose
\* context or runtime handle is not in them gives the neutral result of its
\* surface: call_function, class_constructor, module_init and
\* interrupt_handler return 0, load_module returns the error source type,
\* normalize_module returns the length of the name it was given and writes
\* that name at outPtr, and class_finalizer, class_gc_mark and
\* promise_rejection_tracker change nothing.
C16_UnregisteredNeutral ==
    [][last'.op \in Surfaces =>
          LET op == last'.op
              unknown == \/ op \in ContextSurfaces /\ last'.target \notin Keys(contexts)
                         \/ op \in RuntimeSurfaces /\ last'.target \notin runtimes
                         \/ op = "load_module"
                              /\ \/ last'.target \notin Keys(contexts)
                                 \/ last'.args.rtPtr \notin runtimes
              name == last'.args.name
              outPtr == last'.args.outPtr
          IN  /\ contexts' = contexts
              /\ runtimes' = runtimes
              /\ unknown =>
                    /\ op \in {"call_function", "class_constructor", "module_init",
                                "interrupt_handler"} => last'.ret = 0
                    /\ op = "load_module" => last'.ret = ModuleSourceError
                    /\ op = "normalize_module" =>
                          /\ last'.ret = Len(name)
                          /\ outPtr + Len(name) <= Len(mem) =>
                                SubSeq(mem', outPtr + 1, outPtr + Len(name)) = name
                    /\ op \in {"class_finalizer", "class_gc_mark",
                                "promise_rejection_tracker"} => StateUnchanged]_vars

\* normalize_module has been called with a two-byte name and the handle of a
\* Realm that was registered and has been closed since.
C16_Witness ==
    /\ last.op = "normalize_module"
    /\ Len(last.args.name) = 2
    /\ last.ret = 2
    /\ \E r \in DOMAIN realm :
          /\ createdWith[r] = last.target
          /\ realm[r].disposed
    /\ last.target \notin Keys(contexts)

\* C12: Runtime methods are safe for concurrent use.  Whatever the
\* interleaving of CreateRealm with Close, no goroutine assigns to an entry of
\* the nil tracking map, none calls NewContext on a runtime handle that is
\* freed, and once every call has returned after a Close, no Realm is left
\* live: a CreateRealm that did not fail had its Realm disposed by Close.
C12_ConcurrentCreateClose ==
    /\ \A t \in Threads :
          thr[t].fault \notin {"assignment to entry in nil map",
                               "NewContext on a freed runtime"}
    /\ (/\ \E t \in Threads : thr[t].op = "RuntimeClose" /\ thr[t].pc = "done"
        /\ \A t \in Threads : thr[t].pc \in {"idle", "done"}) =>
           \A r \in DOMAIN realm : realm[r].disposed

\* C13: while a goroutine is inside Eval on a Realm, the Realm's context
\* handle and the runtime handle are live in the engine: a concurrent
\* Runtime.Close frees neither before the evaluation has returned.  Stated
\* for the runs in which Runtime.Close is the only disposal, so that a freed
\* handle was freed by it.
C13_CloseWaitsForEval ==
    \A t \in Threads :
        (/\ thr[t].pc = "ev_running"
         /\ \E u \in Threads : thr[u].op = "RuntimeClose"
         /\ \A u \in Threads : thr[u].op # "RealmClose") =>
            (thr[t].ptr \in engCtxs /\ engRtLive)

\* C21: Realm.Close on a live Realm removes the Realm's context handle from
\* CallbackManager.contexts before it calls FreeContext on that handle, so
\* when the call returns the freed handle is mapped to no Realm; and a
\* disposed Realm that is no longer mapped under its handle is never mapped
\* under it again, also when the engine hands the handle out anew.
C21_UnregisterBeforeFree ==
    /\ [][(last'.op = "RealmClose" /\ Live(last'.target)) =>
             LET cs == last'.calls
                 h == realm[last'.target].Pointer
             IN  /\ \A j \in DOMAIN cs :
                       cs[j].fn = "FreeContext" =>
                           /\ cs[j].on = h
                           /\ \E i \in 1..(j - 1) :
                                 cs[i].fn = "UnregisterContext" /\ cs[i].on = h
                 /\ h \notin Keys(contexts')
                 /\ h \notin engCtxs']_vars
    /\ [][\A r \in DOMAIN realm :
             (realm[r].disposed /\ <<createdWith[r], r>> \notin contexts) =>
                 <<createdWith[r], r>> \notin contexts']_vars

\* Realm.Close has freed the handle of one Realm while another Realm is live
\* and registered.
C21_Witness ==
    /\ last.op = "RealmClose"
    /\ CallsTo(last.calls, "FreeContext") = 1
    /\ last.calls[1].fn = "UnregisterContext"
    /\ \E r \in DOMAIN realm : Live(r) /\ <<realm[r].Pointer, r>> \in contexts

\* C22: a CreateRealm call on a Runtime that is not disposed makes one engine
\* call, NewContext.  When that returns a non-null handle, the call returns
\* without error a Realm that holds the handle, is tracked in rt.realms under
\* it and is registered in CallbackManager.contexts under it, and the only
\* call after NewContext is the RegisterContext on that handle.  When it
\* returns the null handle, the call returns an error and the Realms, the
\* tracking map and the contexts map are unchanged.
C22_RegisterBeforePublish ==
    [][(last'.op = "CreateRealm" /\ ~rt.disposed) =>
          LET cs == last'.calls
              h == cs[1].ret
              r == last'.target
          IN  /\ Len(cs) >= 1
              /\ cs[1].fn = "NewContext"
              /\ EngineCallsOf(cs) = <<cs[1]>>
              /\ (h # 0) = (last'.err = "nil")
              /\ h # 0 =>
                    /\ r \in DOMAIN realm' /\ r \notin DOMAIN realm
                    /\ realm'[r] = [Pointer |-> h, disposed |-> FALSE]
                    /\ <<h, r>> \in rt'.realms
                    /\ <<h, r>> \in contexts'
                    /\ Tail(cs) = <<Call("RegisterContext", h, r, 0)>>
              /\ h = 0 =>
                    /\ last'.err = "null"
                    /\ realm' = realm
                    /\ rt' = rt
                    /\ contexts' = contexts
                    /\ Tail(cs) = <<>>]_vars

\* CreateRealm has returned a second Realm, tracked and registered under a
\* handle the engine had handed out before.
C22_Witness ==
    /\ last.op = "CreateRealm"
    /\ last.err = "nil"
    /\ last.target = 2
    /\ createdWith[2] = createdWith[1]
    /\ <<createdWith[2], 2>> \in contexts
    /\ <<createdWith[2], 2>> \in rt.realms

\* CreateRealm has returned an error on the null handle while one Realm is
\* tracked and registered.
C22_WitnessNull ==
    /\ last.op = "CreateRealm"
    /\ last.err = "null"
    /\ contexts # {}

\* C24: under concurrent disposal no engine handle is freed twice.  Whatever
\* the interleaving of Runtime.Close and Realm.Close calls on different
\* goroutines, FreeContext is called at most once for the handle of each
\* Realm, FreeRuntime is called by at most one goroutine, and never on a
\* runtime handle that is already freed.
C24_NoDoubleFree ==
    /\ \A r \in DOMAIN realm : freeContextCount[r] <= 1
    /\ Cardinality({t \in Threads : thr[t].freedRt}) <= 1
    /\ \A t \in Threads : thr[t].fault # "FreeRuntime on a freed runtime"

\* C25: any set of concurrent CreateRealm, Realm.Close and Runtime.Close
\* calls eventually all return.  Then no call ends in a panic instead of a
\* return, and Runtime.mu is never left held by a goroutine that has stopped,
\* which would block every later Lock for ever.
C25_AllCallsReturn ==
    /\ \A t \in Threads : thr[t].pc # "panicked"
    /\ mu # 0 => thr[mu].pc \notin {"idle", "done", "panicked"}

\* The calls of cmLog that have taken effect: all of them, but for the call
\* of the goroutine that holds the lock and has not yet written.
Applied ==
    IF \E t \in Threads : thr[t].pc = "cm_write"
    THEN SubSeq(cmLog, 1, Len(cmLog) - 1)
    ELSE cmLog

\* The last call of `log` among the methods `ops` on handle h, 0 when none.
LastCall(log, ops, h) ==
    LET on == {i \in DOMAIN log : log[i].op \in ops /\ log[i].ptr = h}
    IN  IF on = {} THEN 0 ELSE CHOOSE i \in on : \A j \in on : j <= i

\* C23: the CallbackManager's maps are linearizable.  At most one goroutine
\* is between Lock and Unlock of a CallbackManager method, and it is the
\* holder of the lock.  In every state, with the calls taken in the order in
\* which they acquired the lock, contexts maps a handle exactly when the last
\* call on it that has taken effect is a RegisterContext, and then to the
\* Realm of that call (a handle with no call keeps its entry), and runtimes
\* holds a handle exactly when the last call on it is a RegisterRuntime.  A
\* step changes no entry but the one under the handle of the call that
\* writes, and no entry of the other map.
C23_ManagerLinearizable ==
    /\ [](\A t \in Threads :
             (thr[t].pc \in {"cm_write", "cm_unlock"}) = (cmMu = t))
    /\ [](\A h \in ContextArgs :
             LET i == LastCall(Applied, {"RegisterContext", "UnregisterContext"}, h)
                 entries == {e \in contexts : e[1] = h}
             IN  IF i = 0 THEN entries = {e \in {<<k, k>> : k \in 1..MaxRealms} : e[1] = h}
                 ELSE IF Applied[i].op = "RegisterContext"
                      THEN entries = {<<h, Applied[i].r>>}
                      ELSE entries = {})
    /\ [](\A h \in RuntimeArgs :
             LET i == LastCall(Applied, {"RegisterRuntime", "UnregisterRuntime"}, h)
             IN  (h \in runtimes) = IF i = 0 THEN h = RtPtr
                                    ELSE Applied[i].op = "RegisterRuntime")
    /\ [][\A h \in ContextArgs, g \in RuntimeArgs :
             /\ {e \in contexts' : e[1] = h} # {e \in contexts : e[1] = h} =>
                   \E t \in Threads :
                       /\ thr[t].pc = "cm_write" /\ thr'[t].pc = "cm_unlock"
                       /\ thr[t].op \in {"RegisterContext", "UnregisterContext"}
                       /\ thr[t].ptr = h
             /\ (g \in runtimes') # (g \in runtimes) =>
                   \E t \in Threads :
                       /\ thr[t].pc = "cm_write" /\ thr'[t].pc = "cm_unlock"
                       /\ thr[t].op \in {"RegisterRuntime", "UnregisterRuntime"}
                       /\ thr[t].ptr = g]_vars

\* Every goroutine has returned; one registered a handle under another Realm
\* and one unregistered the same handle, and the later call decided.
C23_Witness ==
    /\ \A t \in Threads : thr[t].pc = "done"
    /\ cmMu = 0
    /\ \E i, j \in DOMAIN cmLog :
          /\ i < j
          /\ cmLog[i].op = "UnregisterContext"
          /\ cmLog[j].op = "RegisterContext"
          /\ cmLog[i].ptr = 1 /\ cmLog[j].ptr = 1 /\ cmLog[j].r = 2
    /\ <<1, 2>> \in contexts
====
